---- MODULE Spec2Model ----
(***************************************************************************)
(* PassRusted: the encrypted vault of src/storage.rs over src/crypto.rs    *)
(* and src/password_entry.rs, with the init command of src/main.rs.        *)
(*                                                                         *)
(* The state is one PasswordStore object (entries, master_key, header),    *)
(* the vault file on disk, the wall clock that Utc::now() reads and the    *)
(* value the last call returned.  Argon2 and AES-GCM are modelled          *)
(* symbolically: a digest is the term of its inputs, a sealed box opens    *)
(* only under the key and nonce that sealed it.                            *)
(*                                                                         *)
(* Spec is the store over the disk; CipherSpec is encrypt_data and         *)
(* decrypt_data of src/crypto.rs on their own.                             *)
(***************************************************************************)
EXTENDS Naturals, Sequences, FiniteSets, TLC

\* ------------------------------------------------------------------ bounds
MaxSteps == 4    \* calls and clock changes in one behaviour
MaxFaults == 1   \* disk faults in one behaviour
MaxTime == 1     \* the wall clock reads 0..MaxTime
MaxSalt == 1     \* OsRng salts are 1..MaxSalt
MaxNonce == 1    \* OsRng nonces are 1..MaxNonce

\* ------------------------------------------------------- program constants
SALT_LEN == 32
NONCE_LEN == 12
KEY_LEN == 32
ARGON2_OUTPUT_LEN == 32
TAG_LEN == 16
MIN_MASTER_LEN == 8
HEADER_VERSION == 1

\* ------------------------------------------------------------------ inputs
MasterPasswords == {"1234567", "12345678"}
Services == {"github", "gitlab"}
Usernames == {"alice"}
EntryPasswords == {"p@ss1", "newpw"}
Times == 0..MaxTime
Salts == 1..MaxSalt
Nonces == 1..MaxNonce
\* Uuid::new_v4.  The code only copies an id; one value stands for all.
Ids == {"uuid-a"}

\* Where save_to_file can fail: "open" before the file is truncated, the
\* others after it ("prefix": nothing written, "header": only the 4-byte
\* length, "payload0": header only, "payloadShort"/"payloadCut": part of the
\* blob, "sync": everything written but sync_all reports an error).
IoOutcomes == {"ok", "open", "prefix", "header", "payload0",
               "payloadShort", "payloadCut", "sync"}

\* ------------------------------------------------------- Option and Result
None == [tag |-> "None"]
Some(x) == [tag |-> "Some", v |-> x]
Unit == [tag |-> "unit"]
Bool(b) == [tag |-> "bool", b |-> b]
Ok(v) == [status |-> "Ok", val |-> v]
Err(msg) == [status |-> "Err", val |-> [tag |-> "error", msg |-> msg]]

\* ------------------------------------------------------------------ crypto
\* SaltString::encode_b64 and its decoding inside hash_password.
encode_b64(bytes) == <<"b64", bytes>>
decode_b64(s) == s[2]

\* Argon2::default().hash_password: the digest of (password, raw salt).
Argon2(password, salt_string) ==
    [alg |-> "argon2id", len |-> ARGON2_OUTPUT_LEN,
     password |-> password, salt |-> decode_b64(salt_string)]

\* The first n bytes of a digest.
Prefix(digest, n) ==
    IF n >= digest.len THEN digest ELSE [digest EXCEPT !.len = n]

\* PasswordHash::to_string and PasswordHash::new: the PHC string.
phc_to_string(salt_string, digest) ==
    <<"$argon2id", salt_string, encode_b64(digest)>>
phc_parse(hash_str) ==
    [salt |-> hash_str[2], hash |-> decode_b64(hash_str[3])]

MasterKey_from_password(password, salt) ==
    LET salt_string == encode_b64(salt)
        hash == Argon2(password, salt_string)
    IN  [key |-> Prefix(hash, KEY_LEN)]

derive_key(password, salt) == MasterKey_from_password(password, salt)

\* salt is the 32 bytes OsRng.fill_bytes drew.
hash_master_password(password, salt) ==
    LET salt_string == encode_b64(salt)
        hash == Argon2(password, salt_string)
    IN  [hash |-> phc_to_string(salt_string, hash), salt |-> salt]

crypto_verify_master_password(password, hash_str) ==
    LET parsed_hash == phc_parse(hash_str)
    IN  Argon2(password, parsed_hash.salt) = parsed_hash.hash

\* AES-256-GCM: nonce || ciphertext+tag.  len is the number of bytes.
PlainLen(data) == Len(data)
\* A variant that seals under one fixed nonce, whatever OsRng drew.
encrypt_data_fixed_nonce(data, key, nonce) ==
    [len |-> NONCE_LEN + PlainLen(data) + TAG_LEN,
     nonce |-> Some(0),
     sealed |-> Some([key |-> key.key, nonce |-> 0, data |-> data])]

encrypt_data(data, key, nonce) ==
    [len |-> NONCE_LEN + PlainLen(data) + TAG_LEN,
     nonce |-> Some(nonce),
     sealed |-> Some([key |-> key.key, nonce |-> nonce, data |-> data])]

\* A blob of which only the first n bytes reached the file.
CutBlob(blob, n) ==
    IF n >= blob.len THEN blob
    ELSE [len |-> n,
          nonce |-> IF n >= NONCE_LEN THEN blob.nonce ELSE None,
          sealed |-> None]

\* A variant that opens a sealed box under any key.
decrypt_data_any_key(encrypted_data, key) ==
    IF encrypted_data.len < NONCE_LEN
    THEN Err("Invalid encrypted data length")
    ELSE IF /\ encrypted_data.sealed # None
            /\ encrypted_data.nonce = Some(encrypted_data.sealed.v.nonce)
         THEN Ok(encrypted_data.sealed.v.data)
         ELSE Err("Decryption failed")

decrypt_data(encrypted_data, key) ==
    IF encrypted_data.len < NONCE_LEN
    THEN Err("Invalid encrypted data length")
    ELSE IF /\ encrypted_data.sealed # None
            /\ encrypted_data.sealed.v.key = key.key
            /\ encrypted_data.nonce = Some(encrypted_data.sealed.v.nonce)
         THEN Ok(encrypted_data.sealed.v.data)
         ELSE Err("Decryption failed")

\* ----------------------------------------------------------- PasswordEntry
\* A variant that puts the username in the service field and the service in
\* the username field.
PasswordEntry_new_swapped(service, username, password, id, now) ==
    [id |-> id, service |-> username, username |-> service,
     password |-> password, created_at |-> now, updated_at |-> now]

PasswordEntry_new(service, username, password, id, now) ==
    [id |-> id, service |-> service, username |-> username,
     password |-> password, created_at |-> now, updated_at |-> now]

\* A variant that also restamps created_at.
PasswordEntry_update_password_restamp(entry, new_password, now) ==
    [entry EXCEPT !.password = new_password, !.updated_at = now,
                  !.created_at = now]

PasswordEntry_update_password(entry, new_password, now) ==
    [entry EXCEPT !.password = new_password, !.updated_at = now]

\* ------------------------------------------------------------ the HashMap
EmptyMap == <<>>
\* Variants: an insert that keeps an existing entry, a remove that removes
\* nothing.
Insert_keep(m, k, v) == [x \in (DOMAIN m) \cup {k} |-> IF x \in DOMAIN m THEN m[x] ELSE v]
Remove_nothing(m, k) == m

Insert(m, k, v) == [x \in (DOMAIN m) \cup {k} |-> IF x = k THEN v ELSE m[x]]
Remove(m, k) == [x \in (DOMAIN m) \ {k} |-> m[x]]
Get(m, k) == IF k \in DOMAIN m THEN Some(m[k]) ELSE None
Values(m) == {m[k] : k \in DOMAIN m}

\* ------------------------------------------------------------ serialization
\* bincode of DatabaseHeader: the fields in declaration order.
serialize_header(h) == <<h.version, h.master_hash, h.salt>>
deserialize_header(b) == [version |-> b[1], master_hash |-> b[2], salt |-> b[3]]

\* chrono's serde form of DateTime<Utc>: an RFC 3339 string.
to_rfc3339(t) == <<"rfc3339", t>>
from_rfc3339(s) == s[2]

\* A variant that writes created_at in the place of updated_at.
serialize_entry_one_stamp(e) ==
    <<e.id, e.service, e.username, e.password,
      to_rfc3339(e.created_at), to_rfc3339(e.created_at)>>

serialize_entry(e) ==
    <<e.id, e.service, e.username, e.password,
      to_rfc3339(e.created_at), to_rfc3339(e.updated_at)>>
deserialize_entry(b) ==
    [id |-> b[1], service |-> b[2], username |-> b[3], password |-> b[4],
     created_at |-> from_rfc3339(b[5]), updated_at |-> from_rfc3339(b[6])]

\* bincode of the HashMap: its (key, value) pairs in iteration order.
RECURSIVE SeqOfMap(_, _)
SeqOfMap(m, keys) ==
    IF keys = {} THEN <<>>
    ELSE LET k == CHOOSE x \in keys : TRUE
         IN  <<<<k, serialize_entry(m[k])>>>> \o SeqOfMap(m, keys \ {k})
serialize_entries(m) == SeqOfMap(m, DOMAIN m)

RECURSIVE MapOfSeq(_)
MapOfSeq(s) ==
    IF s = <<>> THEN EmptyMap
    ELSE Insert(MapOfSeq(SubSeq(s, 1, Len(s) - 1)),
                s[Len(s)][1], deserialize_entry(s[Len(s)][2]))
deserialize_entries(b) == MapOfSeq(b)

\* ---------------------------------------------------------------- the file
\* prefix: the 4-byte header length is there; header: the header bytes, if
\* all of them are there; payload: the bytes after the header.
NoFile == [kind |-> "absent"]
NoPayload == [len |-> 0, nonce |-> None, sealed |-> None]
FileOf(prefix, hdr, payload) ==
    [kind |-> "file", prefix |-> prefix, header |-> hdr, payload |-> payload]
Exists(f) == f.kind = "file"

\* ------------------------------------------------------------------- state
VARIABLES file,        \* the vault file at file_path
          entries,     \* PasswordStore.entries
          master_key,  \* PasswordStore.master_key
          header,      \* PasswordStore.header
          constructed, \* PasswordStore::new returned a store
          clock,       \* the wall clock Utc::now() reads
          ret,         \* the last call: its name, arguments and result
          steps,       \* how many steps the behaviour has taken
          faults       \* how many disk faults the behaviour has seen

vars == <<file, entries, master_key, header, constructed, clock, ret, steps,
          faults>>

store_and_disk ==
    <<file, entries, master_key, header, constructed, clock, faults>>

\* Every step of a behaviour is counted.
Tick == steps < MaxSteps /\ steps' = steps + 1

Call(op, args, res) == [op |-> op, args |-> args, res |-> res]

\* --------------------------------------------------- reading and writing
load_header(f) ==
    IF ~Exists(f) THEN Err("open")
    ELSE IF ~f.prefix THEN Err("read_exact")
    ELSE IF f.header = None THEN Err("read_exact")
    ELSE Ok(Some(deserialize_header(f.header.v)))

\* A variant that hands an empty remainder to decrypt_data as well.
load_entries_decrypt_empty(key, f) ==
    IF key = None THEN Err("Master key not available")
    ELSE IF ~Exists(f) THEN Err("open")
    ELSE IF ~f.prefix THEN Err("read_exact")
    ELSE LET decrypted_data == decrypt_data(f.payload, key.v)
         IN  IF decrypted_data.status = "Err" THEN decrypted_data
             ELSE Ok(deserialize_entries(decrypted_data.val))

\* The entries load_entries puts in the store, or the error it returns.
load_entries(key, f) ==
    IF key = None THEN Err("Master key not available")
    ELSE IF ~Exists(f) THEN Err("open")
    ELSE IF ~f.prefix THEN Err("read_exact")
    ELSE IF f.header = None \/ f.payload.len = 0 THEN Ok(EmptyMap)
    ELSE LET decrypted_data == decrypt_data(f.payload, key.v)
         IN  IF decrypted_data.status = "Err" THEN decrypted_data
             ELSE Ok(deserialize_entries(decrypted_data.val))

\* A variant that rewrites the header and keeps a payload the file already
\* has.
save_to_file_keep_payload(hdr, key, ents, f, nonce, io) ==
    IF hdr = None THEN [file |-> f, res |-> Err("Header not available")]
    ELSE IF key = None THEN [file |-> f, res |-> Err("Master key not available")]
    ELSE IF io # "ok" THEN [file |-> f, res |-> Err("io")]
    ELSE [file |-> FileOf(TRUE, Some(serialize_header(hdr.v)),
                          IF Exists(f) /\ f.payload.len > 0 THEN f.payload
                          ELSE encrypt_data(serialize_entries(ents), key.v,
                                            nonce)),
          res |-> Ok(Unit)]

\* A variant that opens and truncates the file before it looks for the
\* header and the key.
save_to_file_truncate_first(hdr, key, ents, f, nonce, io) ==
    IF hdr = None
    THEN [file |-> FileOf(FALSE, None, NoPayload),
          res |-> Err("Header not available")]
    ELSE IF key = None
    THEN [file |-> FileOf(FALSE, None, NoPayload),
          res |-> Err("Master key not available")]
    ELSE IF io # "ok" THEN [file |-> f, res |-> Err("io")]
    ELSE [file |-> FileOf(TRUE, Some(serialize_header(hdr.v)),
                          encrypt_data(serialize_entries(ents), key.v, nonce)),
          res |-> Ok(Unit)]

\* The file save_to_file leaves and the result it returns.
save_to_file(hdr, key, ents, f, nonce, io) ==
    IF hdr = None THEN [file |-> f, res |-> Err("Header not available")]
    ELSE IF key = None THEN [file |-> f, res |-> Err("Master key not available")]
    ELSE IF io = "open" THEN [file |-> f, res |-> Err("io")]
    ELSE
    LET header_bytes == Some(serialize_header(hdr.v))
        entries_bytes == serialize_entries(ents)
        encrypted_data == encrypt_data(entries_bytes, key.v, nonce)
    IN  CASE io = "prefix" ->
               [file |-> FileOf(FALSE, None, NoPayload), res |-> Err("io")]
          [] io = "header" ->
               [file |-> FileOf(TRUE, None, NoPayload), res |-> Err("io")]
          [] io = "payload0" ->
               [file |-> FileOf(TRUE, header_bytes, NoPayload), res |-> Err("io")]
          [] io = "payloadShort" ->
               [file |-> FileOf(TRUE, header_bytes,
                                CutBlob(encrypted_data, NONCE_LEN - 1)),
                res |-> Err("io")]
          [] io = "payloadCut" ->
               [file |-> FileOf(TRUE, header_bytes,
                                CutBlob(encrypted_data, NONCE_LEN)),
                res |-> Err("io")]
          [] io = "sync" ->
               [file |-> FileOf(TRUE, header_bytes, encrypted_data),
                res |-> Err("io")]
          [] OTHER ->
               [file |-> FileOf(TRUE, header_bytes, encrypted_data),
                res |-> Ok(Unit)]

is_initialized == Exists(file) /\ header # None

\* What a save_to_file call may do, over the nonce OsRng draws and the ways
\* the disk may answer.  A call that returns before it opens the file draws
\* no nonce and meets no disk.
IoChoices(hdr, key) ==
    IF hdr = None \/ key = None \/ faults >= MaxFaults THEN {"ok"}
    ELSE IoOutcomes
Saves(hdr, key, ents, f) ==
    {save_to_file(hdr, key, ents, f, nonce, io) :
        nonce \in Nonces, io \in IoChoices(hdr, key)}
Fault(saved) == faults' = IF saved.res = Err("io") THEN faults + 1 ELSE faults

\* -------------------------------------------------------------- operations
Init ==
    /\ file = NoFile
    /\ entries = EmptyMap
    /\ master_key = None
    /\ header = None
    /\ constructed = TRUE
    /\ clock = 0
    /\ ret = Call("new", <<>>, Ok(Unit))
    /\ steps = 0
    /\ faults = 0

\* PasswordStore::new: a new process opens the vault path.
new ==
    LET h == IF Exists(file) THEN load_header(file) ELSE Ok(None)
    IN  /\ Tick
        /\ entries' = EmptyMap
        /\ master_key' = None
        /\ header' = IF h.status = "Ok" THEN h.val ELSE None
        /\ constructed' = (h.status = "Ok")
        /\ ret' = Call("new", <<>>, IF h.status = "Ok" THEN Ok(Unit) ELSE h)
        /\ UNCHANGED <<file, clock, faults>>

initialize(master_password) ==
    /\ constructed
    /\ Tick
    /\ \E salt \in Salts :
         LET hs == hash_master_password(master_password, salt)
             hdr == Some([version |-> HEADER_VERSION,
                          master_hash |-> hs.hash, salt |-> hs.salt])
             key == Some(derive_key(master_password, hdr.v.salt))
         IN  \E saved \in Saves(hdr, key, entries, file) :
               /\ header' = hdr
               /\ master_key' = key
               /\ file' = saved.file
               /\ ret' = Call("initialize", <<master_password>>, saved.res)
               /\ Fault(saved)
    /\ UNCHANGED <<entries, constructed, clock>>

\* A variant that answers Ok(false) on a store without a header.
verify_master_password_no_header_false(password) ==
    /\ constructed
    /\ Tick
    /\ IF header = None
       THEN /\ ret' = Call("verify_master_password", <<password>>,
                           Ok(Bool(FALSE)))
            /\ UNCHANGED <<entries, master_key>>
       ELSE IF crypto_verify_master_password(password, header.v.master_hash)
       THEN LET key == Some(derive_key(password, header.v.salt))
                loaded == load_entries(key, file)
            IN  /\ master_key' = key
                /\ entries' = IF loaded.status = "Ok" THEN loaded.val
                              ELSE entries
                /\ ret' = Call("verify_master_password", <<password>>,
                               IF loaded.status = "Ok" THEN Ok(Bool(TRUE))
                               ELSE loaded)
       ELSE /\ ret' = Call("verify_master_password", <<password>>, Ok(Bool(FALSE)))
            /\ UNCHANGED <<entries, master_key>>
    /\ UNCHANGED <<file, header, constructed, clock, faults>>

\* A variant that derives and keeps the key before it verifies the password.
verify_master_password_key_first(password) ==
    /\ constructed
    /\ Tick
    /\ IF header = None
       THEN /\ ret' = Call("verify_master_password", <<password>>,
                           Err("Database not initialized"))
            /\ UNCHANGED <<entries, master_key>>
       ELSE /\ master_key' = Some(derive_key(password, header.v.salt))
            /\ IF crypto_verify_master_password(password, header.v.master_hash)
               THEN LET loaded == load_entries(
                            Some(derive_key(password, header.v.salt)), file)
                    IN  /\ entries' = IF loaded.status = "Ok" THEN loaded.val
                                      ELSE entries
                        /\ ret' = Call("verify_master_password", <<password>>,
                                       IF loaded.status = "Ok"
                                       THEN Ok(Bool(TRUE)) ELSE loaded)
               ELSE /\ ret' = Call("verify_master_password", <<password>>,
                                   Ok(Bool(FALSE)))
                    /\ UNCHANGED entries
    /\ UNCHANGED <<file, header, constructed, clock, faults>>

verify_master_password(password) ==
    /\ constructed
    /\ Tick
    /\ IF header = None
       THEN /\ ret' = Call("verify_master_password", <<password>>,
                           Err("Database not initialized"))
            /\ UNCHANGED <<entries, master_key>>
       ELSE IF crypto_verify_master_password(password, header.v.master_hash)
       THEN LET key == Some(derive_key(password, header.v.salt))
                loaded == load_entries(key, file)
            IN  /\ master_key' = key
                /\ entries' = IF loaded.status = "Ok" THEN loaded.val
                              ELSE entries
                /\ ret' = Call("verify_master_password", <<password>>,
                               IF loaded.status = "Ok" THEN Ok(Bool(TRUE))
                               ELSE loaded)
       ELSE /\ ret' = Call("verify_master_password", <<password>>, Ok(Bool(FALSE)))
            /\ UNCHANGED <<entries, master_key>>
    /\ UNCHANGED <<file, header, constructed, clock, faults>>

add_entry(service, username, password) ==
    /\ constructed
    /\ Tick
    /\ \E id \in Ids :
         LET entry == PasswordEntry_new(service, username, password, id, clock)
             inserted == Insert(entries, service, entry)
         IN  \E saved \in Saves(header, master_key, inserted, file) :
               /\ entries' = inserted
               /\ file' = saved.file
               /\ ret' = Call("add_entry", <<service, username, password>>,
                              saved.res)
               /\ Fault(saved)
    /\ UNCHANGED <<master_key, header, constructed, clock>>

get_entry(service) ==
    /\ constructed
    /\ Tick
    /\ ret' = Call("get_entry", <<service>>, Ok(Get(entries, service)))
    /\ UNCHANGED store_and_disk

list_entries ==
    /\ constructed
    /\ Tick
    /\ ret' = Call("list_entries", <<>>,
                   Ok([tag |-> "list", items |-> Values(entries)]))
    /\ UNCHANGED store_and_disk

delete_entry(service) ==
    /\ constructed
    /\ Tick
    /\ LET removed == Remove(entries, service)
       IN  \E saved \in Saves(header, master_key, removed, file) :
             /\ entries' = removed
             /\ file' = saved.file
             /\ ret' = Call("delete_entry", <<service>>, saved.res)
             /\ Fault(saved)
    /\ UNCHANGED <<master_key, header, constructed, clock>>

update_password(service, new_password) ==
    /\ constructed
    /\ Tick
    /\ IF service \in DOMAIN entries
       THEN LET updated == [entries EXCEPT ![service] =
                   PasswordEntry_update_password(@, new_password, clock)]
            IN  \E saved \in Saves(header, master_key, updated, file) :
                  /\ entries' = updated
                  /\ file' = saved.file
                  /\ ret' = Call("update_password", <<service, new_password>>,
                                 saved.res)
                  /\ Fault(saved)
       ELSE /\ ret' = Call("update_password", <<service, new_password>>,
                           Ok(Unit))
            /\ UNCHANGED <<file, entries, faults>>
    /\ UNCHANGED <<master_key, header, constructed, clock>>

\* main.rs, the init command on the store run_cli opened.
initialize_database(master_password, confirm_password) ==
    /\ constructed
    /\ IF is_initialized
       THEN /\ ret' = Call("initialize_database", <<master_password>>, Ok(Unit))
            /\ Tick
            /\ UNCHANGED store_and_disk
       ELSE IF master_password # confirm_password
       THEN /\ ret' = Call("initialize_database", <<master_password>>,
                           Err("Passwords do not match!"))
            /\ Tick
            /\ UNCHANGED store_and_disk
       ELSE IF Len(master_password) < MIN_MASTER_LEN
       THEN /\ ret' = Call("initialize_database", <<master_password>>,
                           Err("Master password must be at least 8 characters long!"))
            /\ Tick
            /\ UNCHANGED store_and_disk
       ELSE initialize(master_password)

\* The system clock is set by the environment; it is not monotonic.
ClockChange ==
    /\ Tick
    /\ \E t \in Times \ {clock} : clock' = t
    /\ ret' = Call("clock", <<>>, Ok(Unit))
    /\ UNCHANGED <<file, entries, master_key, header, constructed, faults>>

\* A vault some other build of the program left at the path: the same layout,
\* another number in the header's version field, one entry in the payload.
OtherVersionFile ==
    /\ ~Exists(file)
    /\ Tick
    /\ \E p \in MasterPasswords, s \in Services, u \in Usernames,
          w \in EntryPasswords, id \in Ids :
         LET hs == hash_master_password(p, 1)
             hdr == [version |-> HEADER_VERSION + 1,
                     master_hash |-> hs.hash, salt |-> hs.salt]
             ents == Insert(EmptyMap, s, PasswordEntry_new(s, u, w, id, 0))
         IN  file' = FileOf(TRUE, Some(serialize_header(hdr)),
                            encrypt_data(serialize_entries(ents),
                                         derive_key(p, hdr.salt), 1))
    /\ ret' = Call("other_version_file", <<>>, Ok(Unit))
    /\ UNCHANGED <<entries, master_key, header, constructed, clock, faults>>

Next ==
    \/ new
    \/ \E p \in MasterPasswords : initialize(p)
    \/ \E p \in MasterPasswords : verify_master_password(p)
    \/ \E s \in Services, u \in Usernames, p \in EntryPasswords : add_entry(s, u, p)
    \/ \E s \in Services : get_entry(s)
    \/ list_entries
    \/ \E s \in Services : delete_entry(s)
    \/ \E s \in Services, p \in EntryPasswords : update_password(s, p)
    \/ \E p \in MasterPasswords, c \in MasterPasswords : initialize_database(p, c)
    \/ ClockChange
    \/ OtherVersionFile

Spec == Init /\ [][Next]_vars

\* ------------------------------------------------- the cipher on its own
\* encrypt_data and decrypt_data as functions of their arguments: ret holds
\* the last call, the store and the disk stay as Init left them.
CipherMaps ==
    UNION {{[s \in S |-> PasswordEntry_new(s, u, pw[s], id, 0)] :
               pw \in [S -> EntryPasswords], u \in Usernames, id \in Ids} :
           S \in SUBSET Services}
Plaintexts == {serialize_entries(m) : m \in CipherMaps}
CipherKeys == {derive_key(p, s) : p \in MasterPasswords, s \in Salts}

\* A bit of the blob is flipped: in the nonce (another nonce, 0 stands for
\* it), or in the ciphertext or the tag (no longer a box any key sealed).
BlobParts == {"nonce", "ciphertext", "tag"}
FlipBit(blob, part) ==
    IF part = "nonce" THEN [blob EXCEPT !.nonce = Some(0)]
    ELSE [blob EXCEPT !.sealed = None]

CipherInit == Init

EncryptCall(data, key) ==
    /\ \E nonce \in Nonces :
         ret' = Call("encrypt_data", <<data, key>>,
                     Ok(encrypt_data(data, key, nonce)))
    /\ UNCHANGED <<store_and_disk, steps>>

\* The blob of the last encrypt_data call is altered or cut before it is
\* read back.
AlterBlob(part) ==
    /\ ret.op = "encrypt_data"
    /\ ret' = Call("alter", <<ret.args[1], ret.args[2], part>>,
                   Ok(IF part = "cut" THEN CutBlob(ret.res.val, NONCE_LEN - 1)
                      ELSE FlipBit(ret.res.val, part)))
    /\ UNCHANGED <<store_and_disk, steps>>

\* args: the blob, the key, and for reference the plaintext and the key of
\* the encrypt_data call and what was done to the blob since.
DecryptCall(key) ==
    /\ ret.op \in {"encrypt_data", "alter"}
    /\ ret' = Call("decrypt_data",
                   <<ret.res.val, key, ret.args[1], ret.args[2],
                     IF ret.op = "alter" THEN ret.args[3] ELSE "none">>,
                   decrypt_data(ret.res.val, key))
    /\ UNCHANGED <<store_and_disk, steps>>

CipherNext ==
    \/ \E data \in Plaintexts, key \in CipherKeys : EncryptCall(data, key)
    \/ \E part \in BlobParts \cup {"cut"} : AlterBlob(part)
    \/ \E key \in CipherKeys : DecryptCall(key)

CipherSpec == CipherInit /\ [][CipherNext]_vars

\* ------------------------------------------------------------------ claims
EntryOps == {"add_entry", "get_entry", "list_entries", "delete_entry",
             "update_password"}
Succeeded == ret.res.status = "Ok"

\* The vault path holds a readable header.
Initialized(f) == load_header(f).status = "Ok"
StoredHeader(f) == load_header(f).val.v

\* The master passwords the stored hash was made from.
CorrectPasswords(f) ==
    {p \in MasterPasswords :
        /\ Initialized(f)
        /\ phc_parse(StoredHeader(f).master_hash).hash.password = p}

\* What a new store on the path holds after PasswordStore::new and
\* verify_master_password(password): the error, Ok(false), or the entries.
Reopen(f, password) ==
    LET h == load_header(f)
    IN  IF h.status # "Ok" THEN h
        ELSE IF ~crypto_verify_master_password(password, h.val.v.master_hash)
        THEN Ok(Bool(FALSE))
        ELSE load_entries(Some(derive_key(password, h.val.v.salt)), f)

\* C1: no value in the unencrypted header of the file equals the key that
\* derive_key gives for the master password and the header's salt; the digest
\* inside the stored password hash is not the encryption key (files written
\* by a healthy disk).
C1_KeyNeverPersisted ==
    (Initialized(file) /\ faults = 0) =>
        \A p \in CorrectPasswords(file) :
            phc_parse(StoredHeader(file).master_hash).hash
                # derive_key(p, StoredHeader(file).salt).key

\* C2: initialize on a vault path that is already initialized fails and
\* leaves the file as it was, whatever the password (on a healthy disk).
C2_InitializeTwiceRejected ==
    [][(ret'.op = "initialize" /\ Initialized(file) /\ faults' = 0)
         => (ret'.res.status = "Err" /\ file' = file)]_vars

\* C3: initialize fails for a password shorter than 8 and then touches
\* neither the file nor the store; a password of length 8 is accepted (on a
\* healthy disk).
C3_ShortPasswordRejected ==
    [][(ret'.op = "initialize" /\ faults' = 0) =>
         /\ Len(ret'.args[1]) < MIN_MASTER_LEN =>
              /\ ret'.res.status = "Err"
              /\ UNCHANGED <<file, header, master_key>>
         /\ (Len(ret'.args[1]) = MIN_MASTER_LEN /\ ~Exists(file))
              => ret'.res.status = "Ok"]_vars

\* C4: after a successful add, delete or update of an existing service, a new
\* store opened on the file and authenticated with the correct master
\* password holds exactly the entries the store holds now.
C4_RoundTrip ==
    (/\ Succeeded
     /\ \/ ret.op \in {"add_entry", "delete_entry"}
        \/ ret.op = "update_password" /\ ret.args[1] \in DOMAIN entries)
    => /\ CorrectPasswords(file) # {}
       /\ \A p \in CorrectPasswords(file) : Reopen(file, p) = Ok(entries)

C4_Witness ==
    /\ ret.op = "update_password" /\ Succeeded
    /\ ret.args[1] \in DOMAIN entries
    /\ entries[ret.args[1]].updated_at # entries[ret.args[1]].created_at
    /\ \E p \in CorrectPasswords(file) : Reopen(file, p) = Ok(entries)

\* C5: verify_master_password with a wrong password on an initialized store
\* returns Ok(false) and changes neither the key, the entries, the header
\* nor the file.
C5_WrongPasswordChangesNothing ==
    [][(/\ ret'.op = "verify_master_password"
        /\ header # None
        /\ phc_parse(header.v.master_hash).hash.password # ret'.args[1])
         => /\ ret'.res = Ok(Bool(FALSE))
            /\ UNCHANGED <<file, entries, master_key, header>>]_vars

C5_Witness ==
    /\ ret.op = "verify_master_password"
    /\ ret.res = Ok(Bool(FALSE))
    /\ header # None /\ master_key = None /\ entries = EmptyMap
    /\ Exists(file)

\* C6: while the store holds no master key, its entries map is empty.
C6_NoKeyNoEntries == master_key = None => entries = EmptyMap

\* C7: add, get, list, delete and update on a store without a master key all
\* fail and change neither the entries map nor the file (no disk fault is
\* involved).
C7_EntryOpsRequireUnlocked ==
    [][(ret'.op \in EntryOps /\ master_key = None /\ faults' = 0)
         => /\ ret'.res.status = "Err"
            /\ UNCHANGED <<entries, file>>]_vars

\* C8: after a successful add(service, username, password) a lookup of the
\* service gives an entry with that username and password and equal
\* timestamps, whether or not the service was there; the other services keep
\* their entries.
C8_AddThenGet ==
    [][(ret'.op = "add_entry" /\ ret'.res.status = "Ok") =>
         LET service == ret'.args[1]
             got == Get(entries', service)
         IN  /\ got # None
             /\ got.v.service = service
             /\ got.v.username = ret'.args[2]
             /\ got.v.password = ret'.args[3]
             /\ got.v.created_at = got.v.updated_at
             /\ DOMAIN entries' = (DOMAIN entries) \cup {service}
             /\ \A o \in Services \ {service} :
                    Get(entries', o) = Get(entries, o)]_vars

C8_Witness ==
    /\ ret.op = "add_entry" /\ Succeeded
    /\ DOMAIN entries = Services
    /\ Get(entries, ret.args[1]).v.password = ret.args[3]

\* C9 as stated: on an unlocked store update_password of an existing service
\* sets the password, makes updated_at strictly later and keeps created_at,
\* id, service and username; of an absent service it succeeds and changes
\* neither the entries nor the file (no disk fault is involved).
C9_UpdateAdvancesStrictly ==
    [][(ret'.op = "update_password" /\ master_key # None /\ faults' = 0) =>
         LET service == ret'.args[1]
         IN  IF service \in DOMAIN entries
             THEN /\ entries'[service].password = ret'.args[2]
                  /\ entries'[service].updated_at > entries[service].updated_at
                  /\ entries'[service].created_at = entries[service].created_at
                  /\ entries'[service].id = entries[service].id
                  /\ entries'[service].service = entries[service].service
                  /\ entries'[service].username = entries[service].username
             ELSE /\ ret'.res = Ok(Unit)
                  /\ UNCHANGED <<entries, file>>]_vars

\* C9 as amended: updated_at becomes the reading of the wall clock at the
\* call, whatever the old value was; the rest as stated.
C9_UpdateStampsClock ==
    [][(ret'.op = "update_password" /\ master_key # None) =>
         LET service == ret'.args[1]
         IN  IF service \in DOMAIN entries
             THEN /\ entries' = [entries EXCEPT ![service] =
                        [@ EXCEPT !.password = ret'.args[2],
                                  !.updated_at = clock]]
             ELSE /\ ret'.res = Ok(Unit)
                  /\ UNCHANGED <<entries, file>>]_vars

C9_Witness ==
    /\ ret.op = "update_password" /\ Succeeded /\ master_key # None
    /\ ret.args[1] \in DOMAIN entries
    /\ entries[ret.args[1]].password = ret.args[2]
    /\ entries[ret.args[1]].updated_at = clock
    /\ entries[ret.args[1]].created_at # clock

\* C10: on an unlocked store, after delete(service) a lookup of the service
\* gives nothing and the other entries are as before; deleting an absent
\* service changes no entry and returns Ok (the rewrite of the file it still
\* does may fail on the disk, which is the only error).
C10_Delete ==
    [][(ret'.op = "delete_entry" /\ master_key # None) =>
         LET service == ret'.args[1]
         IN  /\ Get(entries', service) = None
             /\ \A o \in Services \ {service} :
                    Get(entries', o) = Get(entries, o)
             /\ service \notin DOMAIN entries =>
                    /\ entries' = entries
                    /\ faults' = faults => ret'.res = Ok(Unit)
                    /\ ret'.res.status = "Err" => ret'.res = Err("io")]_vars

C10_Witness ==
    /\ ret.op = "delete_entry" /\ Succeeded
    /\ entries # EmptyMap
    /\ ret.args[1] \notin DOMAIN entries
    /\ \E p \in CorrectPasswords(file) : Reopen(file, p) = Ok(entries)

\* C11: PasswordStore::new and verify_master_password on a file whose header
\* holds a version other than HEADER_VERSION fail, and load neither the header
\* nor the entries (on a healthy disk).
C11_VersionChecked ==
    [][(/\ Initialized(file)
        /\ StoredHeader(file).version # HEADER_VERSION
        /\ faults' = 0) =>
         /\ ret'.op = "new" => (ret'.res.status = "Err" /\ header' = None)
         /\ ret'.op = "verify_master_password" =>
                (ret'.res.status = "Err" /\ UNCHANGED <<entries, master_key>>)]_vars

\* C12: after a successful initialize the store holds a master key and no
\* entries, the file holds the header and an encrypted empty map, and a new
\* store on the file authenticated with the same password holds no entries,
\* whatever calls came before.
C12_InitializeLeavesEmptyVault ==
    (ret.op = "initialize" /\ Succeeded) =>
        /\ master_key # None
        /\ entries = EmptyMap
        /\ Initialized(file)
        /\ decrypt_data(file.payload, master_key.v)
               = Ok(serialize_entries(EmptyMap))
        /\ Reopen(file, ret.args[1]) = Ok(EmptyMap)

\* C13: a verify_master_password that returns an error on a store with a
\* header (the hash verified, reading the payload failed) leaves the master
\* key and the entries as they were before the call.
C13_FailedAuthenticateChangesNothing ==
    [][(/\ ret'.op = "verify_master_password"
        /\ ret'.res.status = "Err"
        /\ header # None)
         => UNCHANGED <<master_key, entries>>]_vars

\* C14: verify_master_password on a store without a header returns the error
\* "Database not initialized" for every password, never Ok(true) or
\* Ok(false), and changes neither the key, the entries, the header nor the
\* file.
C14_NotInitializedIsError ==
    [][(ret'.op = "verify_master_password" /\ header = None)
         => /\ ret'.res = Err("Database not initialized")
            /\ UNCHANGED <<master_key, entries, header, file>>]_vars

C14_Witness ==
    /\ ret.op = "verify_master_password"
    /\ ret.res = Err("Database not initialized")
    /\ ret.args[1] \in MasterPasswords
    /\ ~Exists(file) /\ header = None /\ master_key = None

\* C15: decrypt_data of what encrypt_data returned, under the same key, gives
\* the plaintext back; of a blob shorter than NONCE_LEN it fails; of a blob
\* with a bit flipped in the ciphertext or the tag, or under another key, it
\* fails and returns no plaintext.
C15_AuthenticatedCipher ==
    ret.op = "decrypt_data" =>
        LET blob == ret.args[1]
            key == ret.args[2]
            data == ret.args[3]
            enc_key == ret.args[4]
            altered == ret.args[5]
        IN  /\ (altered = "none" /\ key = enc_key) => ret.res = Ok(data)
            /\ blob.len < NONCE_LEN => ret.res.status = "Err"
            /\ (altered \in {"ciphertext", "tag"} \/ key # enc_key)
                   => ret.res.status = "Err"

C15_Witness ==
    /\ ret.op = "decrypt_data"
    /\ ret.args[5] = "tag"
    /\ ret.args[2] = ret.args[4]
    /\ ret.args[3] # <<>>
    /\ ret.res = Err("Decryption failed")

\* C16: once the file and the store hold the same header, every later
\* initialize, verify_master_password, add_entry, update_password and
\* delete_entry leaves the header in the file and the header in the store as
\* they were (on a healthy disk).
C16_HeaderImmutable ==
    [][(/\ Initialized(file)
        /\ header = Some(StoredHeader(file))
        /\ ret'.op \in {"initialize", "verify_master_password", "add_entry",
                        "update_password", "delete_entry"}
        /\ faults' = 0)
         => /\ header' = header
            /\ Initialized(file')
            /\ StoredHeader(file') = StoredHeader(file)]_vars

\* The calls that end in save_to_file.
PersistOps == {"initialize", "add_entry", "delete_entry", "update_password"}

\* The file holds a whole blob sealed under the key the store holds.
SealedUnder(f, key) ==
    /\ Exists(f)
    /\ f.payload.sealed # None
    /\ key # None
    /\ f.payload.sealed.v.key = key.v.key

C18_MemoryDiskAgreement ==
    (/\ Succeeded
     /\ ret.op \in PersistOps
     /\ ret.op = "update_password" => ret.args[1] \in DOMAIN entries)
    => /\ header # None /\ master_key # None
       /\ Exists(file) /\ file.prefix
       /\ file.header = Some(serialize_header(header.v))
       /\ file.payload.len
              = NONCE_LEN + Len(serialize_entries(entries)) + TAG_LEN
       /\ file.payload.nonce # None
       /\ file.payload.sealed # None
       /\ file.payload.sealed.v.key = master_key.v.key
       /\ decrypt_data(file.payload, master_key.v)
              = Ok(serialize_entries(entries))
       /\ load_entries(master_key, file) = Ok(entries)

C18_Witness ==
    /\ ret.op = "add_entry" /\ Succeeded
    /\ DOMAIN entries = Services
    /\ entries["github"].password # entries["gitlab"].password
    /\ load_entries(master_key, file) = Ok(entries)

\* C19: a persisting call that fails because the header or the master key is
\* missing leaves the file as it was; a failed persisting call after which
\* the file differs failed on the disk (open, write or sync).  The map of the
\* store may hold the mutation of the failed call.
C19_FailedPersist ==
    [][(ret'.op \in PersistOps /\ ret'.res.status = "Err") =>
         /\ (header' = None \/ master_key' = None) =>
                /\ ret'.res \in {Err("Header not available"),
                                 Err("Master key not available")}
                /\ file' = file
         /\ ret'.res \in {Err("Header not available"),
                          Err("Master key not available")} => file' = file
         /\ file' # file => ret'.res = Err("io")]_vars

C19_Witness ==
    /\ ret.op = "add_entry"
    /\ ret.res = Err("Master key not available")
    /\ ret.args[1] \in DOMAIN entries
    /\ \E p \in CorrectPasswords(file) : Reopen(file, p) = Ok(EmptyMap)

\* C20: verify_master_password with the correct password on a file with a
\* valid header returns Ok(true) and leaves no entries when no byte follows
\* the header; when bytes follow, they go to decrypt_data, whose error is
\* returned and whose plaintext becomes the entries.
C20_EmptyPayloadIsEmptyMap ==
    [][(/\ ret'.op = "verify_master_password"
        /\ header # None
        /\ crypto_verify_master_password(ret'.args[1], header.v.master_hash)
        /\ Initialized(file)) =>
         IF file.payload.len = 0
         THEN /\ ret'.res = Ok(Bool(TRUE))
              /\ entries' = EmptyMap
         ELSE LET decrypted_data ==
                      decrypt_data(file.payload,
                                   derive_key(ret'.args[1], header.v.salt))
              IN  IF decrypted_data.status = "Err"
                  THEN ret'.res = decrypted_data
                  ELSE /\ ret'.res = Ok(Bool(TRUE))
                       /\ entries' = deserialize_entries(decrypted_data.val)]_vars

C20_Witness ==
    /\ ret.op = "verify_master_password"
    /\ ret.res = Ok(Bool(TRUE))
    /\ Initialized(file)
    /\ file.payload.len = 0
    /\ entries = EmptyMap /\ master_key # None

\* Every entry of the map is stored under its own service name.
KeyedByService(m) == \A s \in DOMAIN m : m[s].service = s

\* C21: every entry the store holds under a key has that key as its service
\* field, and so has every entry of the map a store loads from the file with
\* a password that verifies; get_entry never returns an entry of another
\* service, and no two entries listed share a service name.
C21_MapKeyIsService ==
    /\ KeyedByService(entries)
    /\ Initialized(file) =>
         \A p \in CorrectPasswords(file) :
            LET loaded == load_entries(
                    Some(derive_key(p, StoredHeader(file).salt)), file)
            IN  loaded.status = "Ok" => KeyedByService(loaded.val)
    /\ (ret.op = "get_entry" /\ ret.res.val # None)
           => ret.res.val.v.service = ret.args[1]
    /\ ret.op = "list_entries" =>
         \A e1 \in ret.res.val.items, e2 \in ret.res.val.items :
            e1.service = e2.service => e1 = e2

C21_Witness ==
    /\ ret.op = "verify_master_password"
    /\ ret.res = Ok(Bool(TRUE))
    /\ entries # EmptyMap
    /\ KeyedByService(entries)
    /\ load_entries(master_key, file) = Ok(entries)

====
